---- MODULE Spec2Model ----
(***************************************************************************)
(* Incremental synchronisation pipeline of the job-email tracker:          *)
(*   gmail_read.py  (fetch stage, raw store)                               *)
(*   main.py        (full export of the raw store)                         *)
(*   predict.py     (classification stage, classified store)               *)
(*   rag.py         (index stage, vector store)                            *)
(*   inbox_agent_gmail_ml_v2.py (hybrid decision layer, master CSV)        *)
(* Files are modelled by their content; a file that has been opened for    *)
(* writing and not yet closed is zero-length / unparsable ("corrupt").     *)
(***************************************************************************)
EXTENDS Integers, Sequences, FiniteSets, Bags, TLC

\* Message ids are 1..MaxId (opaque; only equality matters).
MaxId == 2

Ids == 1..MaxId

\* The parsed store holds up to MaxRows rows when it is any table.
MaxRows == 2

\* pd.NA / NaN / an empty Excel cell.
NA == -1

VARIABLES
    rawStore,      \* Data/gmail_subject_body_date.xlsx (OUTPUT_EXCEL)
    loopPc,        \* gmail_read.__main__: "stopped", "sleeping", "writing"
    master_df,     \* gmail_read.__main__: in-memory copy of the raw store
    seen_ids,      \* gmail_read.__main__: ids already processed
    exportPc,      \* main.save_gmail_to_excel: "idle", "writing"
    export_df,     \* main.save_gmail_to_excel: the DataFrame being saved
    exitStatus     \* how the most recently launched program ended: "none"
                   \* while it runs or after the export returned,
                   \* "classified" / "indexed" after classify / the index
                   \* run returned, else the diagnostic of the failure

VARIABLES
    clsStore,      \* Data/mail_classified.xlsx (output_path)
    clsPc,         \* EmailJobClassifier.classify: "idle", "writing"
    df_old,        \* classify: the prior classified store as loaded
    df,            \* classify: the merged table being saved
    predict_calls  \* classify: row positions of df handed to model.predict

VARIABLES
    parsedStore,   \* Data/mail_classified_llm_parsed.xlsx (EXCEL_PATH)
    collection,    \* Chroma collection "job_email_collection": the bag of
                   \* its entries
    embed_calls    \* doc_ids of the documents handed to embedder.encode in
                   \* the latest index run

VARIABLES
    masterStore,   \* job_emails_from_gmail_ml_v2.csv (master_csv_path)
    prob_threshold \* InboxAgentGmailML.prob_threshold, in tenths; 0 while
                   \* no agent has been constructed

VARIABLES
    answer,        \* rag.ask: the answer of the latest question, <<>> before
                   \* any question
    llm_invoked    \* rag.llm_node: llm.invoke was called for that question

VARIABLES
    cls_columns    \* the columns of Data/mail_classified.xlsx among id,
                   \* job_label and prob_job

VARIABLES
    oncePc,        \* app.fetch_new_emails_once: "idle", "loaded", "writing"
    once_df,       \* fetch_new_emails_once: its master_df
    once_seen,     \* fetch_new_emails_once: its seen_ids
    once_new       \* fetch_new_emails_once: its df_new, the rows it fetched

VARIABLES
    status_text,   \* infer_job_status: its argument, the combined text
    job_status     \* infer_job_status: its result, "" before the call

fetchVars == <<rawStore, loopPc, master_df, seen_ids, exportPc, export_df>>

clsVars == <<clsStore, clsPc, df_old, df, predict_calls>>

idxVars == <<parsedStore, collection, embed_calls>>

agentVars == <<masterStore, prob_threshold>>

qaVars == <<answer, llm_invoked>>

statusVars == <<status_text, job_status>>

onceVars == <<oncePc, once_df, once_seen, once_new>>

schemaVars == <<cls_columns>>

vars == <<fetchVars, clsVars, idxVars, agentVars, qaVars, statusVars, onceVars, schemaVars, exitStatus>>

(***************************************************************************)
(* Files                                                                   *)
(***************************************************************************)
\* No file at the path.
Absent == [st |-> "absent", cols |-> FALSE, rows |-> <<>>]

\* The file exists but is zero-length or cut short: pd.read_excel raises.
Corrupt == [st |-> "corrupt", cols |-> FALSE, rows |-> <<>>]

\* DataFrame.to_excel(path, index=False) run to completion.  A DataFrame
\* built from an empty list has no columns at all.
Saved(rows, cols) == [st |-> "ok", cols |-> cols, rows |-> rows]

Range(s) == {s[i] : i \in DOMAIN s}

\* ids of the rows of a table, in row order
IdsOf(rows) == [i \in DOMAIN rows |-> rows[i].id]

(***************************************************************************)
(* Message source (Gmail API): a listing is a sequence of distinct ids.    *)
(***************************************************************************)
Listings ==
    {s \in UNION {[1..n -> Ids] : n \in 0..MaxId} :
        \A i, j \in DOMAIN s : i # j => s[i] # s[j]}

\* messages().list(...).execute(): a page of ids, or an HttpError.
ListResponses ==
    {[ok |-> FALSE, ids |-> <<>>]} \cup [ok : {TRUE}, ids : Listings]

\* The ids messages().get(...).execute() fails for during one cycle: the
\* first failure ends the cycle, so at most one id is drawn.
Failings == {{}} \cup {{i} : i \in Ids}

\* maxResults=500: the ids one page of messages().list holds, here as many
\* as a listing of the model holds.
PageSize == MaxId

\* The messages matching the query, newest first: one more than a page holds.
Mailboxes ==
    {s \in UNION {[1..n -> 1..(PageSize + 1)] : n \in 0..(PageSize + 1)} :
        \A i, j \in DOMAIN s : i # j => s[i] # s[j]}

\* messages().list(userId="me", q=query, maxResults=500).execute() called
\* without pageToken: the first page of the matching messages.
messages_list(matching) ==
    [ok |-> TRUE,
     ids |-> SubSeq(matching, 1, IF Len(matching) < PageSize THEN Len(matching)
                                 ELSE PageSize)]

\* GmailLiveReader.list_ids
list_ids(resp) == resp.ids

\* GmailLiveReader.get_details: the row built for one message.
get_details(msg_id) == [id |-> msg_id, gmail_link |-> msg_id]

\* new_ids without the `if mid not in seen_ids` filter
NewIds_NoFilter(all_ids, seen) == all_ids

RECURSIVE NewIds(_, _)
\* new_ids = [mid for mid in all_ids if mid not in seen_ids]
NewIds(all_ids, seen) ==
    IF all_ids = <<>> THEN <<>>
    ELSE LET rest == NewIds(Tail(all_ids), seen)
         IN  IF Head(all_ids) \in seen THEN rest
             ELSE <<Head(all_ids)>> \o rest

RECURSIVE DetailLoop_NoMark(_, _, _, _, _)
\* the loop without seen_ids.add(mid)
DetailLoop_NoMark(new_ids, failing, rows, seen, calls) ==
    IF new_ids = <<>>
    THEN [raised |-> "none", rows |-> rows, seen_ids |-> seen, calls |-> calls]
    ELSE LET mid == Head(new_ids)
         IN  IF mid \in failing
             THEN [raised |-> "detail_error", rows |-> rows, seen_ids |-> seen,
                   calls |-> calls \cup {mid}]
             ELSE DetailLoop_NoMark(Tail(new_ids), failing,
                                    Append(rows, get_details(mid)),
                                    seen, calls \cup {mid})

RECURSIVE DetailLoop(_, _, _, _, _)
\* for mid in new_ids: details = get_details(mid); rows.append(details);
\* seen_ids.add(mid).  get_details raises for the ids in `failing`; the
\* exception is not caught and leaves the loop at once.
DetailLoop(new_ids, failing, rows, seen, calls) ==
    IF new_ids = <<>>
    THEN [raised |-> "none", rows |-> rows, seen_ids |-> seen, calls |-> calls]
    ELSE LET mid == Head(new_ids)
         IN  IF mid \in failing
             THEN [raised |-> "detail_error", rows |-> rows, seen_ids |-> seen,
                   calls |-> calls \cup {mid}]
             ELSE DetailLoop(Tail(new_ids), failing,
                             Append(rows, get_details(mid)),
                             seen \cup {mid}, calls \cup {mid})

\* fetch_new_as_dataframe with a listing error swallowed as an empty page
fetch_new_as_dataframe_ListingSwallowed(resp, failing, seen) ==
    LET new_ids == NewIds(list_ids(resp), seen)
    IN  IF new_ids = <<>>
        THEN [raised |-> "none", rows |-> <<>>, seen_ids |-> seen, calls |-> {}]
        ELSE DetailLoop(new_ids, failing, <<>>, seen, {})

\* GmailLiveReader.fetch_new_as_dataframe(query, seen_ids)
fetch_new_as_dataframe(resp, failing, seen) ==
    IF ~resp.ok
    THEN [raised |-> "listing_error", rows |-> <<>>, seen_ids |-> seen, calls |-> {}]
    ELSE LET new_ids == NewIds(list_ids(resp), seen)
         IN  IF new_ids = <<>>
             THEN [raised |-> "none", rows |-> <<>>, seen_ids |-> seen, calls |-> {}]
             ELSE DetailLoop(new_ids, failing, <<>>, seen, {})

(***************************************************************************)
(* gmail_read.py __main__: the live loop                                   *)
(***************************************************************************)
\* seen_ids left empty whatever the file holds
SeedSeen_Empty(file) == {}

\* seen_ids = set(master_df["id"].astype(str).tolist()) if "id" is among the
\* columns, else set()
SeedSeen(file) == IF file.cols THEN Range(IdsOf(file.rows)) ELSE {}

\* Lines 201-217: load the existing Excel file, seed seen_ids from it.
LoopStart ==
    /\ loopPc = "stopped"
    /\ IF rawStore.st = "corrupt"
       THEN \* pd.read_excel raises: the process ends before the loop
            /\ exitStatus' = "load_error"
            /\ UNCHANGED <<loopPc, master_df, seen_ids>>
       ELSE /\ loopPc' = "sleeping"
            /\ exitStatus' = "none"
            /\ master_df' = rawStore.rows
            /\ seen_ids' = SeedSeen(rawStore)
    /\ UNCHANGED <<rawStore, exportPc, export_df>>
    /\ UNCHANGED <<clsVars, idxVars, agentVars, qaVars, statusVars, onceVars, schemaVars>>

\* the new rows alone, the table held so far dropped
concat_NewOnly(frame, df_new) == df_new

\* pd.concat([master_df, df_new], ignore_index=True)
concat(frame, df_new) == frame \o df_new

\* Lines 225-237: one cycle of `while True`, up to the opening of the file
\* by to_excel.
LoopCycle(resp, failing) ==
    /\ loopPc = "sleeping"
    /\ LET r == fetch_new_as_dataframe(resp, failing, seen_ids)
       IN  IF r.raised # "none"
           THEN \* uncaught exception: the process ends, its memory is gone
                /\ loopPc' = "stopped"
                /\ exitStatus' = r.raised
                /\ master_df' = <<>>
                /\ seen_ids' = {}
                /\ UNCHANGED rawStore
           ELSE IF r.rows = <<>>
           THEN \* df_new.empty: "No new emails."
                /\ seen_ids' = r.seen_ids
                /\ UNCHANGED <<loopPc, exitStatus, master_df, rawStore>>
           ELSE /\ seen_ids' = r.seen_ids
                /\ master_df' = concat(master_df, r.rows)
                /\ rawStore' = Corrupt
                /\ loopPc' = "writing"
                /\ UNCHANGED exitStatus
    /\ UNCHANGED <<exportPc, export_df>>
    /\ UNCHANGED <<clsVars, idxVars, agentVars, qaVars, statusVars, onceVars, schemaVars>>

\* Line 237: master_df.to_excel(OUTPUT_EXCEL) completes.
LoopWriteEnd ==
    /\ loopPc = "writing"
    /\ rawStore' = Saved(master_df, TRUE)
    /\ loopPc' = "sleeping"
    /\ UNCHANGED <<master_df, seen_ids, exportPc, export_df, exitStatus>>
    /\ UNCHANGED <<clsVars, idxVars, agentVars, qaVars, statusVars, onceVars, schemaVars>>

\* Ctrl+C or a kill of the process, asleep or in the middle of to_excel:
\* the file stays as the interrupted write left it, the memory is gone.
LoopKill ==
    /\ loopPc \in {"sleeping", "writing"}
    /\ loopPc' = "stopped"
    /\ exitStatus' = "loop_killed"
    /\ master_df' = <<>>
    /\ seen_ids' = {}
    /\ UNCHANGED <<rawStore, exportPc, export_df>>
    /\ UNCHANGED <<clsVars, idxVars, agentVars, qaVars, statusVars, onceVars, schemaVars>>

(***************************************************************************)
(* app.py: fetch_new_emails_once, one fetch cycle started from the app     *)
(***************************************************************************)
\* Lines 50-70: load the existing Excel file, seed seen_ids from it.
OnceLoad ==
    /\ oncePc = "idle"
    /\ IF rawStore.st = "corrupt"
       THEN \* pd.read_excel raises: the call ends
            /\ exitStatus' = "load_error"
            /\ UNCHANGED onceVars
       ELSE /\ oncePc' = "loaded"
            /\ once_df' = rawStore.rows
            /\ once_seen' = SeedSeen(rawStore)
            /\ UNCHANGED <<once_new, exitStatus>>
    /\ UNCHANGED <<fetchVars, clsVars, idxVars, agentVars, qaVars, statusVars, schemaVars>>

\* Lines 73-81: fetch the new emails; return when there is none, else
\* append them and open the file for to_excel.
OnceFetch(resp, failing) ==
    /\ oncePc = "loaded"
    /\ LET r == fetch_new_as_dataframe(resp, failing, once_seen)
       IN  IF r.raised # "none"
           THEN \* uncaught exception: the call ends
                /\ oncePc' = "idle"
                /\ exitStatus' = r.raised
                /\ once_df' = <<>>
                /\ once_seen' = {}
                /\ once_new' = <<>>
                /\ UNCHANGED rawStore
           ELSE IF r.rows = <<>>
           THEN \* "No new emails found for this query.": return master_df
                /\ oncePc' = "idle"
                /\ once_df' = <<>>
                /\ once_seen' = {}
                /\ once_new' = <<>>
                /\ UNCHANGED <<exitStatus, rawStore>>
           ELSE /\ once_seen' = r.seen_ids
                /\ once_new' = r.rows
                /\ once_df' = concat(once_df, r.rows)
                /\ rawStore' = Corrupt
                /\ oncePc' = "writing"
                /\ UNCHANGED exitStatus
    /\ UNCHANGED <<loopPc, master_df, seen_ids, exportPc, export_df>>
    /\ UNCHANGED <<clsVars, idxVars, agentVars, qaVars, statusVars, schemaVars>>

\* Line 82: master_df.to_excel(OUTPUT_EXCEL) completes; the call returns.
OnceWriteEnd ==
    /\ oncePc = "writing"
    /\ rawStore' = Saved(once_df, TRUE)
    /\ oncePc' = "idle"
    /\ once_df' = <<>>
    /\ once_seen' = {}
    /\ once_new' = <<>>
    /\ UNCHANGED <<loopPc, master_df, seen_ids, exportPc, export_df, exitStatus>>
    /\ UNCHANGED <<clsVars, idxVars, agentVars, qaVars, statusVars, schemaVars>>

(***************************************************************************)
(* main.py: save_gmail_to_excel, the full export                           *)
(***************************************************************************)
RECURSIVE ExportRows(_)
\* data.append({"id": mid, ..., "gmail_link": gmail_link}) for every id
ExportRows(message_ids) ==
    IF message_ids = <<>> THEN <<>>
    ELSE <<get_details(Head(message_ids))>> \o ExportRows(Tail(message_ids))

\* Lines 203-237, up to the opening of the file by to_excel.
ExportBegin(message_ids) ==
    /\ exportPc = "idle"
    /\ export_df' = ExportRows(message_ids)
    /\ exportPc' = "writing"
    /\ rawStore' = Corrupt
    /\ exitStatus' = "none"
    /\ UNCHANGED <<loopPc, master_df, seen_ids>>
    /\ UNCHANGED <<clsVars, idxVars, agentVars, qaVars, statusVars, onceVars, schemaVars>>

\* df.to_excel(excel_file) completes.  pd.DataFrame([]) has no columns.
ExportWriteEnd ==
    /\ exportPc = "writing"
    /\ rawStore' = Saved(export_df, export_df # <<>>)
    /\ exportPc' = "idle"
    /\ export_df' = <<>>
    /\ UNCHANGED <<loopPc, master_df, seen_ids, exitStatus>>
    /\ UNCHANGED <<clsVars, idxVars, agentVars, qaVars, statusVars, onceVars, schemaVars>>

\* The export is killed in the middle of to_excel.
ExportKill ==
    /\ exportPc = "writing"
    /\ exportPc' = "idle"
    /\ export_df' = <<>>
    /\ exitStatus' = "export_killed"
    /\ UNCHANGED <<rawStore, loopPc, master_df, seen_ids>>
    /\ UNCHANGED <<clsVars, idxVars, agentVars, qaVars, statusVars, onceVars, schemaVars>>

(***************************************************************************)
(* predict.py: EmailJobClassifier.classify                                 *)
(***************************************************************************)
\* What model.predict / model.predict_proba[:, 1] give for one text: the
\* label and the probability of class 1, in tenths.
Preds == {[job_label |-> 0, prob_job |-> 2], [job_label |-> 1, prob_job |-> 8]}

\* The exits that end classify through sys.exit(1) or an exception.
FatalExits == {"raw_missing", "model_missing", "raw_unreadable",
               "missing_columns", "old_unreadable", "old_missing_column",
               "model_unreadable", "predict_raised"}

\* What the run meets when it looks for the model and invokes it.
ModelEnvs == {"ok", "model_missing", "model_unreadable", "predict_raised"}

\* load_excel_safely(path): the table, or sys.exit(1) when pd.read_excel raises.
load_excel_safely(file) ==
    IF file.st = "ok" THEN [exit |-> FALSE, frame |-> file]
    ELSE [exit |-> TRUE, frame |-> Absent]

\* the old table taken as it is, without drop_duplicates
drop_duplicates_None(rows, kept_ids) == rows

RECURSIVE drop_duplicates(_, _)
\* df_old[cols_to_pull].drop_duplicates(subset=["id"]): the first row of
\* every id is kept.
drop_duplicates(rows, kept_ids) ==
    IF rows = <<>> THEN <<>>
    ELSE IF Head(rows).id \in kept_ids
         THEN drop_duplicates(Tail(rows), kept_ids)
         ELSE <<Head(rows)>> \o drop_duplicates(Tail(rows), kept_ids \cup {Head(rows).id})

RECURSIVE MatchRows(_, _)
\* the rows of the right table a left row joins with, in right order
MatchRows(row, right) ==
    IF right = <<>> THEN <<>>
    ELSE LET rest == MatchRows(row, Tail(right))
         IN  IF Head(right).id = row.id
             THEN <<[id |-> row.id, gmail_link |-> row.gmail_link,
                     job_label |-> Head(right).job_label,
                     prob_job |-> Head(right).prob_job]>> \o rest
             ELSE rest

RECURSIVE merge(_, _)
\* df.merge(df_old_small, on="id", how="left") followed by the two fillna:
\* df's own job_label / prob_job are all NA, so the old values fill them.
\* A left row without a match keeps NA; a left row with k matches gives k rows.
merge(left, right) ==
    IF left = <<>> THEN <<>>
    ELSE LET m == MatchRows(Head(left), right)
         IN  (IF m = <<>>
              THEN <<[id |-> Head(left).id, gmail_link |-> Head(left).gmail_link,
                      job_label |-> NA, prob_job |-> NA]>>
              ELSE m) \o merge(Tail(left), right)

\* The columns of the classified store that classify looks for.
LabelColumns == {"id", "job_label", "prob_job"}

\* every column asked for, in the file or not
cols_to_pull_All(columns) == LabelColumns

\* cols_to_pull = [c for c in ["id", "job_label", "prob_job"] if c in df_old.columns]
cols_to_pull(columns) == LabelColumns \cap columns

\* df_old[cols_to_pull]: a column that is not pulled gives no *_old column to
\* the merge, and df keeps its own job_label / prob_job, all pd.NA.
PullOld(rows, pulled) ==
    [i \in DOMAIN rows |->
        [id |-> rows[i].id, gmail_link |-> rows[i].gmail_link,
         job_label |-> IF "job_label" \in pulled THEN rows[i].job_label ELSE NA,
         prob_job |-> IF "prob_job" \in pulled THEN rows[i].prob_job ELSE NA]]

\* the base table without the merge of the old classifications
MergeOld_NoReuse(src_rows, old) == merge(src_rows, <<>>)

\* Lines 98-129: the base table with the old classifications merged in.
MergeOld(src_rows, old) ==
    IF old.st = "ok" /\ old.cols /\ "id" \in cls_columns
    THEN merge(src_rows, drop_duplicates(PullOld(old.rows, cols_to_pull(cls_columns)), {}))
    ELSE merge(src_rows, <<>>)

\* every row selected for classification
mask_new_All(rows) == DOMAIN rows

\* mask_new = df["job_label"].isna()
mask_new(rows) == {i \in DOMAIN rows : rows[i].job_label = NA}

\* every selected row given the first prediction
AssignPreds_Broadcast(rows, mask, preds) ==
    [i \in DOMAIN rows |->
        IF i \in mask
        THEN [id |-> rows[i].id, gmail_link |-> rows[i].gmail_link,
              job_label |-> preds[1].job_label, prob_job |-> preds[1].prob_job]
        ELSE rows[i]]

\* df.loc[mask_new, "job_label"] = preds; df.loc[mask_new, "prob_job"] = probs:
\* the k-th prediction goes to the k-th masked row.
AssignPreds(rows, mask, preds) ==
    [i \in DOMAIN rows |->
        IF i \in mask
        THEN LET k == Cardinality({j \in mask : j <= i})
             IN  [id |-> rows[i].id, gmail_link |-> rows[i].gmail_link,
                  job_label |-> preds[k].job_label, prob_job |-> preds[k].prob_job]
        ELSE rows[i]]

\* Lines 47-65 and 81-82: the checks that end the run before the merge.
EarlyExit(raw, old, env) ==
    IF raw.st = "absent" THEN "raw_missing"
    ELSE IF env = "model_missing" THEN "model_missing"
    ELSE IF load_excel_safely(raw).exit THEN "raw_unreadable"
    ELSE IF ~raw.cols THEN "missing_columns"
    ELSE IF old.st # "absent" /\ load_excel_safely(old).exit THEN "old_unreadable"
    ELSE IF /\ old.st = "ok" /\ "id" \in cls_columns
            /\ ~(cols_to_pull(cls_columns) \subseteq cls_columns)
    THEN \* df_old[cols_to_pull] raises KeyError for a column not in the file
         "old_missing_column"
    ELSE "none"

\* classify ends after the output file has been opened for writing
ClassifyExits_AfterOpen(reason) ==
    /\ exitStatus' = reason
    /\ clsStore' = Corrupt
    /\ UNCHANGED <<clsPc, df_old, df, predict_calls>>

\* classify ends without touching the output file.
ClassifyExits(reason) ==
    /\ exitStatus' = reason
    /\ UNCHANGED <<clsStore, clsPc, df_old, df, predict_calls>>

\* classify reaches df.to_excel(self.output_path): the file is opened.
ClassifyOpens(old, rows, calls) ==
    /\ df_old' = old
    /\ df' = rows
    /\ predict_calls' = calls
    /\ clsStore' = Corrupt
    /\ clsPc' = "writing"
    /\ exitStatus' = "none"

\* EmailJobClassifier.classify, lines 45-171, up to the opening of the
\* output file by to_excel.
Classify(env) ==
    /\ clsPc = "idle"
    /\ LET early == EarlyExit(rawStore, clsStore, env)
           merged == MergeOld(rawStore.rows, clsStore)
           mask == mask_new(merged)
       IN  IF early # "none" THEN ClassifyExits(early)
           ELSE IF mask = {}
           THEN \* "Nothing new to classify": the table is saved as it is
                ClassifyOpens(clsStore, merged, {})
           ELSE IF env \in {"model_unreadable", "predict_raised"}
           THEN ClassifyExits(env)
           ELSE \E preds \in [1..Cardinality(mask) -> Preds] :
                    ClassifyOpens(clsStore, AssignPreds(merged, mask, preds), mask)
    /\ UNCHANGED <<fetchVars, idxVars, agentVars, qaVars, statusVars, onceVars, schemaVars>>

\* df.to_excel(self.output_path) completes and classify returns.
ClassifyWriteEnd ==
    /\ clsPc = "writing"
    /\ clsStore' = Saved(df, TRUE)
    /\ cls_columns' = LabelColumns
    /\ clsPc' = "idle"
    /\ exitStatus' = "classified"
    /\ df_old' = Absent
    /\ df' = <<>>
    /\ predict_calls' = {}
    /\ UNCHANGED <<fetchVars, idxVars, agentVars, qaVars, statusVars, onceVars>>

\* The run is killed in the middle of to_excel.
ClassifyKill ==
    /\ clsPc = "writing"
    /\ clsPc' = "idle"
    /\ exitStatus' = "classify_killed"
    /\ df_old' = Absent
    /\ df' = <<>>
    /\ predict_calls' = {}
    /\ UNCHANGED clsStore
    /\ UNCHANGED <<fetchVars, idxVars, agentVars, qaVars, statusVars, onceVars, schemaVars>>

\* A row of a classified store written by an earlier version or edited by
\* hand: any id, classified or not.
ClsRow ==
    {[id |-> i, gmail_link |-> i, job_label |-> p.job_label, prob_job |-> p.prob_job] :
        i \in Ids, p \in Preds \cup {[job_label |-> NA, prob_job |-> NA]}}

\* The classified store found by a run was written by an earlier version or
\* edited by hand: it lacks one more of the columns; the cells of a column
\* that is not there read as null.
ClsDropColumn(c) ==
    /\ clsPc = "idle"
    /\ clsStore.st = "ok"
    /\ c \in cls_columns
    /\ cls_columns' = cls_columns \ {c}
    /\ clsStore' = Saved([i \in DOMAIN clsStore.rows |->
                             [clsStore.rows[i] EXCEPT ![c] = NA]], TRUE)
    /\ exitStatus' = "none"
    /\ UNCHANGED <<clsPc, df_old, df, predict_calls>>
    /\ UNCHANGED <<fetchVars, idxVars, agentVars, qaVars, statusVars, onceVars>>

\* The classified store found by a run is any table: one more row at its end.
ClsAppend(row) ==
    /\ clsPc = "idle"
    /\ clsStore.st # "corrupt"
    /\ Len(clsStore.rows) < MaxRows
    /\ \A c \in LabelColumns \ cls_columns : row[c] = NA
    /\ clsStore' = Saved(Append(clsStore.rows, row), TRUE)
    /\ exitStatus' = "none"
    /\ UNCHANGED <<clsPc, df_old, df, predict_calls>>
    /\ UNCHANGED <<fetchVars, idxVars, agentVars, qaVars, statusVars, onceVars, schemaVars>>

(***************************************************************************)
(* ner.py (not in src/): the parser between the classified store and the   *)
(* parsed store read by rag.py                                             *)
(***************************************************************************)
\* The source link of a message, a deterministic function of its id.
MailLink(id) == <<"https://mail.google.com/mail/u/0/#all/", id>>

RECURSIVE ParsedRows(_)
\* one parsed row per classified row: its link and its text
ParsedRows(rows) ==
    IF rows = <<>> THEN <<>>
    ELSE <<[mail_link |-> MailLink(Head(rows).gmail_link),
            mailcontent |-> Head(rows).id]>> \o ParsedRows(Tail(rows))

\* ner.main(): reads mail_classified.xlsx, writes
\* mail_classified_llm_parsed.xlsx.
NerRun ==
    /\ clsStore.st = "ok"
    /\ parsedStore' = Saved(ParsedRows(clsStore.rows), TRUE)
    /\ exitStatus' = "none"
    /\ UNCHANGED <<collection, embed_calls>>
    /\ UNCHANGED <<fetchVars, clsVars, agentVars, qaVars, statusVars, onceVars, schemaVars>>

\* The texts of parsed mails, when the parsed store is any table.
Contents == {1, 2}

\* mail_link of a parsed row, when the parsed store is any table: empty, or
\* one of two links.
MailLinks == {<<>>, MailLink(1), MailLink(2)}

ParsedRow == [mail_link : MailLinks, mailcontent : Contents]

\* A later run of the parser has one more row at the end of its output.
ParsedAppend(row) ==
    /\ parsedStore.st = "ok" => Len(parsedStore.rows) < MaxRows
    /\ parsedStore' = Saved(Append(parsedStore.rows, row), TRUE)
    /\ exitStatus' = "none"
    /\ UNCHANGED <<collection, embed_calls>>
    /\ UNCHANGED <<fetchVars, clsVars, agentVars, qaVars, statusVars, onceVars, schemaVars>>

\* A later run of the parser has one row less in its output.
ParsedDrop(k) ==
    /\ parsedStore.st = "ok"
    /\ k \in DOMAIN parsedStore.rows
    /\ parsedStore' = Saved(SubSeq(parsedStore.rows, 1, k - 1)
                              \o SubSeq(parsedStore.rows, k + 1, Len(parsedStore.rows)),
                            TRUE)
    /\ exitStatus' = "none"
    /\ UNCHANGED <<collection, embed_calls>>
    /\ UNCHANGED <<fetchVars, clsVars, agentVars, qaVars, statusVars, onceVars, schemaVars>>

(***************************************************************************)
(* rag.py, module level: incremental add to the vector store               *)
(***************************************************************************)
\* a synthetic key that leaves the position out
RowKey_NoPosition(i) == <<"row_", 0>>

\* f"row_{i}"
RowKey(i) == <<"row_", i>>

\* Lines 54-61: doc_id is mail_link; where it is empty, row_<index>, the
\* index being the 0-based position of the row.
WithDocId(rows) ==
    [i \in DOMAIN rows |->
        [doc_id |-> IF rows[i].mail_link = <<>> THEN RowKey(i - 1)
                    ELSE rows[i].mail_link,
         mailcontent |-> rows[i].mailcontent]]

\* existing_ids = set(collection.get(limit=1000000).get("ids", []))
existing_ids(coll) == {e.id : e \in BagToSet(coll)}

\* df_new without the ~isin(existing_ids) filter
NewDocs_NoFilter(rows, existing) == rows

RECURSIVE NewDocs(_, _)
\* df_new = df[~df["doc_id"].isin(existing_ids)]
NewDocs(rows, existing) ==
    IF rows = <<>> THEN <<>>
    ELSE LET rest == NewDocs(Tail(rows), existing)
         IN  IF Head(rows).doc_id \in existing THEN rest
             ELSE <<Head(rows)>> \o rest

RECURSIVE AddEntries(_, _)
\* Chroma stores the records of an add one by one; a record whose id the
\* collection already holds is skipped.
AddEntries(coll, docs) ==
    IF docs = <<>> THEN coll
    ELSE IF Head(docs).doc_id \in existing_ids(coll)
         THEN AddEntries(coll, Tail(docs))
         ELSE AddEntries(coll (+) SetToBag({[id |-> Head(docs).doc_id,
                                             document |-> Head(docs).mailcontent]}),
                         Tail(docs))

\* an add that stores every record of the batch as it comes
collection_add_Blind(coll, docs) ==
    LET entry(i) == [id |-> docs[i].doc_id, document |-> docs[i].mailcontent]
        entries == {entry(i) : i \in DOMAIN docs}
    IN  [raised |-> FALSE,
         coll |-> coll (+) [e \in entries |->
                               Cardinality({i \in DOMAIN docs : entry(i) = e})]]

\* collection.add(ids=ids, documents=documents, ...): Chroma validates the
\* batch first and raises DuplicateIDError when an id occurs twice in it.
collection_add(coll, docs) ==
    IF \E i, j \in DOMAIN docs : i # j /\ docs[i].doc_id = docs[j].doc_id
    THEN [raised |-> TRUE, coll |-> coll]
    ELSE [raised |-> FALSE, coll |-> AddEntries(coll, docs)]

\* Lines 37-114, run when rag is imported or started.
IndexSync ==
    /\ IF parsedStore.st # "ok"
       THEN \* pd.read_excel raises
            /\ exitStatus' = "parsed_unreadable"
            /\ UNCHANGED <<collection, embed_calls>>
       ELSE IF ~parsedStore.cols
       THEN \* raise ValueError("Missing required column")
            /\ exitStatus' = "parsed_missing_column"
            /\ UNCHANGED <<collection, embed_calls>>
       ELSE LET df_new == NewDocs(WithDocId(parsedStore.rows), existing_ids(collection))
                added == collection_add(collection, df_new)
            IN  IF df_new = <<>>
                THEN \* "No new rows to embed."
                     /\ embed_calls' = <<>>
                     /\ exitStatus' = "indexed"
                     /\ UNCHANGED collection
                ELSE /\ embed_calls' = [i \in DOMAIN df_new |-> df_new[i].doc_id]
                     /\ collection' = added.coll
                     /\ exitStatus' = IF added.raised THEN "duplicate_ids" ELSE "indexed"
    /\ UNCHANGED parsedStore
    /\ UNCHANGED <<fetchVars, clsVars, agentVars, qaVars, statusVars, onceVars, schemaVars>>

(***************************************************************************)
(* inbox_agent_gmail_ml_v2.py: the hybrid decision layer                   *)
(* A text is modelled by the set of listed phrases that occur in it        *)
(* (`p in text` is membership); lower() and clean_text keep that set.      *)
(***************************************************************************)
JOB_DOMAINS_INFER ==
    {"indeed", "linkedin", "handshake", "joinhandshake", "workday",
     "myworkday", "greenhouse", "bamboohr", "icims", "smartrecruiters",
     "lever.co", "jazzhr", "monster", "careerbuilder", "workable", "eightfold"}

STRONG_SUBJECT_INFER ==
    {"application received", "application submitted", "application update",
     "thank you for applying", "your application", "job application",
     "we received your application", "we have received your application",
     "interview invitation", "invitation to interview",
     "schedule your interview", "job offer", "offer letter"}

STRONG_BODY_INFER ==
    {"this email is to serve as confirmation that we are in receipt of your application",
     "confirmation that we are in receipt of your application",
     "we are in receipt of your application",
     "we have received your application",
     "your application has been received",
     "thank you for applying",
     "your application is currently being reviewed",
     "a dedicated member of our talent acquisition team will be in contact",
     "a member of our talent acquisition team will be in contact",
     "a recruiter will be in contact",
     "we regret to inform you",
     "we have decided not to move forward with your application",
     "schedule an interview", "interview invitation", "invitation to interview"}

APPLICATION_CONFIRM_WORDS ==
    {"application received", "thank you for applying",
     "we have received your application",
     "your application has been received",
     "this email is to serve as confirmation that we are in receipt of your application",
     "we are in receipt of your application",
     "your application is currently being reviewed"}

INTERVIEW_WORDS ==
    {"schedule an interview", "interview invitation", "invitation to interview",
     "virtual interview", "onsite interview", "phone interview"}

REJECTION_WORDS ==
    {"we regret to inform you", "not moving forward with your application",
     "we have decided not to move forward", "your application was not selected",
     "we will not be moving forward"}

\* auto_train_job_email_model.py: the senders the training rule labels 0.
NEGATIVE_DOMAINS ==
    {"sofi", "bankofamerica", "bofa", "chase", "wellsfargo", "capitalone",
     "americanexpress", "amex", "starbucks", "ubereats", "doordash",
     "grubhub", "mcdonalds", "burgerking", "dominos", "netflix", "spotify",
     "apple.com", "appleid", "primevideo", "hulu", "disneyplus", "amazon",
     "amzn"}

\* auto_train_job_email_model.is_negative_sender
is_negative_sender(sender) == NEGATIVE_DOMAINS \cap sender # {}

\* text = f"{subject} [SEP] {body}"
Combined(subject, body) == subject \cup body

\* the decision left to the model score alone
has_strong_job_signal_Never(subject, body, sender) == FALSE

has_strong_job_signal(subject, body, sender) ==
    \/ JOB_DOMAINS_INFER \cap sender # {}
    \/ STRONG_SUBJECT_INFER \cap subject # {}
    \/ STRONG_BODY_INFER \cap Combined(subject, body) # {}

infer_job_status(text) ==
    IF APPLICATION_CONFIRM_WORDS \cap text # {} THEN "APPLICATION_CONFIRMATION"
    ELSE IF INTERVIEW_WORDS \cap text # {} THEN "INTERVIEW_INVITE"
    ELSE IF REJECTION_WORDS \cap text # {} THEN "REJECTION"
    ELSE "OTHER_JOB_EMAIL"

\* Combined texts handed to infer_job_status: any choice among two
\* confirmation phrases, two interview phrases, a rejection phrase and a
\* phrase of no list of this module.
StatusPhrases ==
    {"application received", "thank you for applying", "virtual interview",
     "phone interview", "we regret to inform you", "job opening"}

StatusTexts == SUBSET StatusPhrases

\* status = infer_job_status(combined)
InferStatus ==
    /\ job_status = ""
    /\ job_status' = infer_job_status(status_text)
    /\ UNCHANGED <<status_text, exitStatus>>
    /\ UNCHANGED <<fetchVars, clsVars, idxVars, agentVars, qaVars, onceVars, schemaVars>>

\* the flag without the REJECTION status
applied_flag_from_status_NoRejection(status) ==
    IF status \in {"APPLICATION_CONFIRMATION", "INTERVIEW_INVITE"} THEN 1 ELSE 0

\* return 1 if status in [...] else 0
applied_flag_from_status(status) ==
    IF status \in {"APPLICATION_CONFIRMATION", "INTERVIEW_INVITE", "REJECTION"}
    THEN 1 ELSE 0

\* Gmail message ids are strings of hexadecimal digits; an id is a pair of
\* the type of the value that holds it ("str" for a Python str, "int" for
\* a numpy int64, "csv" for the characters in the CSV file) and its digits.
EmailIds == {<<"str", "17">>, <<"str", "1a">>}

\* The ids whose digits are all decimal.
DigitOnly == {"17"}

\* DataFrame.to_csv(path, index=False): the digits of each id.
to_csv(rows) ==
    [i \in DOMAIN rows |-> [rows[i] EXCEPT !.email_id = <<"csv", @[2]>>]]

\* pd.read_csv(path): a column in which every value is a decimal number is
\* read as int64, any other column of ids as str.
read_csv(rows) ==
    LET dtype == IF \A i \in DOMAIN rows : rows[i].email_id[2] \in DigitOnly
                 THEN "int" ELSE "str"
    IN  [i \in DOMAIN rows |-> [rows[i] EXCEPT !.email_id = <<dtype, @[2]>>]]

Senders == {{}, {"amazon"}, {"workday"}}

Subjects == {{}, {"application received"}}

Bodies == {{}, {"we regret to inform you"}}

\* Emails handed to the agent: a consumer sender, a recruiting platform or
\* neither; a listed phrase in the subject, in the body, or in neither.  At
\* most one of the three fields carries a signal, except for the platform
\* sender with a phrase in the subject.
Emails ==
    {e \in [email_id : EmailIds, sender : Senders, subject : Subjects, body : Bodies] :
        \/ e.subject = {} /\ e.body = {}
        \/ e.sender = {} /\ (e.subject = {} \/ e.body = {})
        \/ e.sender = {"workday"} /\ e.body = {}}

\* model.predict_proba(texts)[i][1] in tenths: below the default threshold
\* and at it.
Probas == {1, 2}

\* Emails per call of process_and_update_csv.
MaxBatch == 1

Batches == UNION {[1..n -> Emails] : n \in 0..MaxBatch}

\* InboxAgentGmailML.__init__ default and the value run_inbox_agent passes: 0.2
DefaultThreshold == 2

Thresholds == {DefaultThreshold, 5}

RECURSIVE AcceptedRows_FixedThreshold(_, _, _)
\* the loop with the default threshold written into the test
AcceptedRows_FixedThreshold(emails, probas, threshold) ==
    IF emails = <<>> THEN <<>>
    ELSE LET email == Head(emails)
             p_job == Head(probas)
             strong == has_strong_job_signal(email.subject, email.body, email.sender)
             status == infer_job_status(Combined(email.subject, email.body))
             rest == AcceptedRows_FixedThreshold(Tail(emails), Tail(probas), threshold)
         IN  IF (~strong) /\ (p_job < DefaultThreshold) THEN rest
             ELSE <<[email_id |-> email.email_id, sender |-> email.sender,
                     subject |-> email.subject, body |-> email.body,
                     job_prob |-> p_job, job_status |-> status,
                     applied |-> applied_flag_from_status(status)]>> \o rest

RECURSIVE AcceptedRows(_, _, _)
\* Lines 315-352: for email, p in zip(emails, probas): skip when there is no
\* strong signal and p_job is below the threshold, else append the row.
AcceptedRows(emails, probas, threshold) ==
    IF emails = <<>> THEN <<>>
    ELSE LET email == Head(emails)
             p_job == Head(probas)
             strong == has_strong_job_signal(email.subject, email.body, email.sender)
             status == infer_job_status(Combined(email.subject, email.body))
             rest == AcceptedRows(Tail(emails), Tail(probas), threshold)
         IN  IF (~strong) /\ (p_job < threshold) THEN rest
             ELSE <<[email_id |-> email.email_id, sender |-> email.sender,
                     subject |-> email.subject, body |-> email.body,
                     job_prob |-> p_job, job_status |-> status,
                     applied |-> applied_flag_from_status(status)]>> \o rest

RECURSIVE KeepLast(_)
\* merged.drop_duplicates(subset=["email_id"], keep="last")
KeepLast(rows) ==
    IF rows = <<>> THEN <<>>
    ELSE IF \E j \in 2..Len(rows) : rows[j].email_id = Head(rows).email_id
         THEN KeepLast(Tail(rows))
         ELSE <<Head(rows)>> \o KeepLast(Tail(rows))

\* InboxAgentGmailML.__init__
AgentConstruct(threshold) ==
    /\ prob_threshold' = threshold
    /\ UNCHANGED <<masterStore, exitStatus>>
    /\ UNCHANGED <<fetchVars, clsVars, idxVars, qaVars, statusVars, onceVars, schemaVars>>

\* no exception of the read caught
Caught_Nothing(error) == FALSE

\* except EmptyDataError
Caught(error) == error = "EmptyDataError"

\* os.path.exists(master_csv_path) and os.path.getsize(master_csv_path) > 0
HasContent(master) == master.st = "ok"

\* pd.read_csv(master_csv_path) raises EmptyDataError for a file without a
\* header line: the one to_csv writes for a DataFrame without columns.
ReadError(master) == IF master.cols THEN "none" ELSE "EmptyDataError"

\* process_and_update_csv ends with the exception of the read.
MasterRaises(master) ==
    HasContent(master) /\ ReadError(master) # "none" /\ ~Caught(ReadError(master))

\* Lines 354-397: the master CSV after the run, given the rows accepted.
MergeMaster(master, rows) ==
    LET readable == HasContent(master) /\ ReadError(master) = "none"
    IN  IF rows = <<>>
        THEN \* new_df.empty: the master is returned as it is, or an
             \* empty one (no columns) is created
             IF readable THEN master ELSE Saved(<<>>, FALSE)
        ELSE IF readable
        THEN Saved(to_csv(KeepLast(read_csv(master.rows) \o rows)), TRUE)
        ELSE IF HasContent(master)
        THEN \* EmptyDataError: old_df = pd.DataFrame(), then the same merge
             Saved(to_csv(KeepLast(rows)), TRUE)
        ELSE \* no file or a zero-length one: new_df.to_csv
             Saved(to_csv(rows), TRUE)

\* A run was killed in the middle of to_csv, right after the file was opened
\* for writing: the master CSV is left with zero bytes.
MasterWriteKilled ==
    /\ prob_threshold # 0
    /\ masterStore.st # "corrupt"
    /\ masterStore' = Corrupt
    /\ exitStatus' = "agent_killed"
    /\ UNCHANGED prob_threshold
    /\ UNCHANGED <<fetchVars, clsVars, idxVars, qaVars, statusVars, onceVars, schemaVars>>

\* InboxAgentGmailML.process_and_update_csv(emails), lines 301-397.
ProcessAndUpdateCsv(emails, probas) ==
    /\ prob_threshold # 0
    /\ IF MasterRaises(masterStore)
       THEN \* the exception leaves process_and_update_csv
            /\ exitStatus' = "agent_raised"
            /\ UNCHANGED masterStore
       ELSE /\ masterStore' = MergeMaster(masterStore,
                                          AcceptedRows(emails, probas, prob_threshold))
            /\ UNCHANGED exitStatus
    /\ UNCHANGED prob_threshold
    /\ UNCHANGED <<fetchVars, clsVars, idxVars, qaVars, statusVars, onceVars, schemaVars>>

(***************************************************************************)
(* rag.py: the question path (retrieve_node, llm_node, ask)                *)
(* A text is the sequence of its words and blanks.                         *)
(***************************************************************************)
\* search_kwargs={"k": 4}
TopK == 4

\* retriever.invoke(question): the TopK nearest entries, all of them when
\* the collection holds fewer.
Retrievable(coll) ==
    {docs \in SUBSET BagToSet(coll) :
        Cardinality(docs) = IF Cardinality(BagToSet(coll)) < TopK
                            THEN Cardinality(BagToSet(coll)) ELSE TopK}

\* "I couldn't find any matching job application emails for this question."
NoMatchAnswer == <<"I couldn't find any matching job application emails for this question.">>

\* What llm.invoke returns: a text with or without blanks around it, which
\* may be the very words of the fixed answer.
LlmOutputs == {<<"status">>, <<" ", "status", " ">>, NoMatchAnswer}

RECURSIVE strip(_)
\* str.strip()
strip(text) ==
    IF text = <<>> THEN <<>>
    ELSE IF Head(text) = " " THEN strip(Tail(text))
    ELSE IF text[Len(text)] = " " THEN strip(SubSeq(text, 1, Len(text) - 1))
    ELSE text

\* the node that answers without a test on retrieved_docs
llm_node_NoShortCircuit(retrieved_docs, output) ==
    [answer |-> strip(output), invoked |-> TRUE]

\* llm_node(state): the fixed answer when nothing was retrieved, else the
\* stripped output of llm.invoke.
llm_node(retrieved_docs, output) ==
    IF retrieved_docs = {}
    THEN [answer |-> NoMatchAnswer, invoked |-> FALSE]
    ELSE [answer |-> strip(output), invoked |-> TRUE]

\* ask(question): retrieve, then generate.  rag.py serves questions once its
\* module-level index run has gone through.
Ask(retrieved_docs, output) ==
    /\ exitStatus = "indexed"
    /\ retrieved_docs \in Retrievable(collection)
    /\ LET final_state == llm_node(retrieved_docs, output)
       IN  /\ answer' = final_state.answer
           /\ llm_invoked' = final_state.invoked
    /\ UNCHANGED exitStatus
    /\ UNCHANGED <<fetchVars, clsVars, idxVars, agentVars, statusVars, onceVars, schemaVars>>

(***************************************************************************)
(* Specifications                                                          *)
(***************************************************************************)
InitStores ==
    /\ rawStore = Absent
    /\ loopPc = "stopped"
    /\ master_df = <<>>
    /\ seen_ids = {}
    /\ exportPc = "idle"
    /\ export_df = <<>>
    /\ exitStatus = "none"
    /\ clsStore = Absent
    /\ clsPc = "idle"
    /\ df_old = Absent
    /\ df = <<>>
    /\ predict_calls = {}
    /\ parsedStore = Absent
    /\ collection = EmptyBag
    /\ embed_calls = <<>>
    /\ masterStore = Absent
    /\ prob_threshold = 0
    /\ answer = <<>>
    /\ llm_invoked = FALSE
    /\ oncePc = "idle"
    /\ once_df = <<>>
    /\ once_seen = {}
    /\ once_new = <<>>
    /\ cls_columns = LabelColumns

Init ==
    /\ InitStores
    /\ status_text = {}
    /\ job_status = ""

\* Runs are serialised (one program at a time holds a store open): a
\* program takes a step that reads or opens a file only while no other
\* program is in the middle of a write.
NoWrite == loopPc # "writing" /\ exportPc = "idle" /\ clsPc = "idle"

FetchNext ==
    \/ NoWrite /\ LoopStart
    \/ NoWrite /\ \E resp \in ListResponses, failing \in Failings : LoopCycle(resp, failing)
    \/ LoopWriteEnd
    \/ LoopKill
    \/ NoWrite /\ loopPc = "stopped" /\ \E message_ids \in Listings : ExportBegin(message_ids)
    \/ ExportWriteEnd
    \/ ExportKill

ClassifyNext ==
    \/ NoWrite /\ \E env \in ModelEnvs : Classify(env)
    \/ ClassifyWriteEnd
    \/ ClassifyKill

Next == FetchNext \/ ClassifyNext

\* Fetch and classification stages, with every failure and kill.
Spec == Init /\ [][Next]_vars

\* The index stage over any sequence of parsed stores.
IndexNext ==
    \/ \E row \in ParsedRow : ParsedAppend(row)
    \/ \E k \in 1..MaxRows : ParsedDrop(k)
    \/ IndexSync

SpecIndex == Init /\ [][IndexNext]_vars

\* The whole pipeline, every run going to its end: fetch cycles with
\* answering collaborators, classify with a loadable model, the parser,
\* the index run.
OkResponses == {r \in ListResponses : r.ok}

PipelineNext ==
    \/ NoWrite /\ LoopStart
    \/ NoWrite /\ \E resp \in OkResponses : LoopCycle(resp, {})
    \/ LoopWriteEnd
    \/ NoWrite /\ Classify("ok")
    \/ ClassifyWriteEnd
    \/ NoWrite /\ NerRun
    \/ NoWrite /\ IndexSync

SpecPipeline == Init /\ [][PipelineNext]_vars

\* Classification over any raw store and any prior classified store.
MergeNext ==
    \/ NoWrite /\ \E message_ids \in Listings : ExportBegin(message_ids)
    \/ ExportWriteEnd
    \/ NoWrite /\ \E row \in ClsRow : ClsAppend(row)
    \/ NoWrite /\ \E env \in ModelEnvs \ {"model_missing"} : Classify(env)
    \/ ClassifyWriteEnd

SpecMerge == Init /\ [][MergeNext]_vars

\* Questions asked between index runs over parsed stores of any links.
QueryNext ==
    \/ \E row \in {r \in ParsedRow : r.mailcontent = 1} : ParsedAppend(row)
    \/ \E k \in 1..MaxRows : ParsedDrop(k)
    \/ IndexSync
    \/ \E retrieved_docs \in SUBSET BagToSet(collection), output \in LlmOutputs :
           Ask(retrieved_docs, output)

SpecQuery == Init /\ [][QueryNext]_vars

\* Classification over any raw store and prior classified stores of
\* labelled rows that lack any of the columns.
DriftNext ==
    \/ NoWrite /\ \E message_ids \in Listings : ExportBegin(message_ids)
    \/ ExportWriteEnd
    \/ NoWrite /\ \E row \in {r \in ClsRow : r.prob_job \in {NA, 8}} : ClsAppend(row)
    \/ NoWrite /\ \E c \in LabelColumns : ClsDropColumn(c)
    \/ NoWrite /\ Classify("ok")
    \/ ClassifyWriteEnd

SpecDrift == Init /\ [][DriftNext]_vars

\* The live loop and fetch_new_emails_once over the same file, their steps
\* interleaved in any order: neither takes a lock nor looks at the other.
RaceNext ==
    \/ LoopStart
    \/ \E resp \in OkResponses : LoopCycle(resp, {})
    \/ LoopWriteEnd
    \/ LoopKill
    \/ OnceLoad
    \/ \E resp \in OkResponses : OnceFetch(resp, {})
    \/ OnceWriteEnd

SpecRace == Init /\ [][RaceNext]_vars

\* infer_job_status applied to any combined text.
InitStatus ==
    /\ InitStores
    /\ status_text \in StatusTexts
    /\ job_status = ""

SpecStatus == InitStatus /\ [][InferStatus]_vars

\* The decision layer over any batches of emails and model outputs.
AgentNext ==
    \/ \E threshold \in Thresholds : AgentConstruct(threshold)
    \/ \E emails \in Batches :
           \E probas \in [DOMAIN emails -> Probas] : ProcessAndUpdateCsv(emails, probas)

SpecAgent == Init /\ [][AgentNext]_vars

\* The master CSV over runs that may be killed in their write; the emails
\* are those without a sender signal and without a phrase in the body.
MasterNext ==
    \/ \E threshold \in Thresholds : AgentConstruct(threshold)
    \/ \E emails \in {b \in Batches : \A i \in DOMAIN b : b[i].sender = {} /\ b[i].body = {}} :
           \E probas \in [DOMAIN emails -> Probas] : ProcessAndUpdateCsv(emails, probas)
    \/ MasterWriteKilled

SpecMaster == Init /\ [][MasterNext]_vars

(***************************************************************************)
(* Properties                                                              *)
(***************************************************************************)
\* A row of the prior classified store that carries a label.
Labelled(row) == row.job_label # NA

\* C1: an item that is in the prior classified store with a label and is
\* still in the raw store keeps its job_label and prob_job exactly in the
\* store the run saves, and the classifier is not invoked on its row.
C1_NoRecomputation ==
    [][(clsPc = "writing" /\ ClassifyWriteEnd) =>
          \A j \in DOMAIN df_old.rows :
              Labelled(df_old.rows[j]) =>
                  \A i \in DOMAIN clsStore'.rows :
                      clsStore'.rows[i].id = df_old.rows[j].id =>
                          /\ clsStore'.rows[i].job_label = df_old.rows[j].job_label
                          /\ clsStore'.rows[i].prob_job = df_old.rows[j].prob_job
                          /\ i \notin predict_calls]_vars

\* A run is saving a table in which one row was taken over from the prior
\* store while another row went through the classifier.
C1_Witness ==
    /\ clsPc = "writing"
    /\ predict_calls # {}
    /\ \E j \in DOMAIN df_old.rows, i \in DOMAIN df :
           /\ Labelled(df_old.rows[j])
           /\ df[i].id = df_old.rows[j].id
           /\ i \notin predict_calls

\* C2: a prior classified store that is zero-length or unparsable is
\* treated as absent: the run goes on and classifies every row of the raw
\* store.
C2_UnreadableOldIsAbsent ==
    [][(/\ clsPc = "idle"
        /\ clsStore.st = "corrupt"
        /\ rawStore.st = "ok" /\ rawStore.cols
        /\ Classify("ok"))
          => (clsPc' = "writing" /\ predict_calls' = DOMAIN rawStore.rows)]_vars

\* The classified store holds a label for exactly the items of the raw store.
ClsUpToDate ==
    /\ rawStore.st = "ok"
    /\ clsStore.st = "ok"
    /\ IdsOf(clsStore.rows) = IdsOf(rawStore.rows)
    /\ \A i \in DOMAIN clsStore.rows : Labelled(clsStore.rows[i])

\* The vector store holds an entry for every row of the parsed store.
IdxUpToDate ==
    /\ parsedStore.st = "ok"
    /\ LET docs == WithDocId(parsedStore.rows)
       IN  \A i \in DOMAIN docs : docs[i].doc_id \in existing_ids(collection)

\* C3: a pipeline run that completes leaves the stores up to date, and a
\* second run with no new upstream items adds no row to the raw store,
\* invokes neither the classifier nor the embedder, and leaves the
\* classified store and the vector store as they were.
C3_SecondRunIsNoOp ==
    [][/\ (clsPc = "writing" /\ ClassifyWriteEnd) => ClsUpToDate'
       /\ (ClsUpToDate /\ Classify("ok")) =>
              (predict_calls' = {} /\ df' = clsStore.rows /\ df_old' = clsStore)
       /\ (clsPc = "writing" /\ df_old.st = "ok" /\ df = df_old.rows /\ ClassifyWriteEnd)
              => clsStore' = df_old
       /\ (IndexSync /\ exitStatus' = "indexed") => IdxUpToDate'
       /\ (IdxUpToDate /\ IndexSync) => (embed_calls' = <<>> /\ collection' = collection)
       /\ loopPc = "sleeping" =>
              \A resp \in OkResponses :
                  (Range(resp.ids) \subseteq seen_ids /\ LoopCycle(resp, {}))
                      => (rawStore' = rawStore /\ master_df' = master_df)]_vars

\* The second classification run is saving the table of the first without
\* having invoked the classifier, after an index run that found its
\* documents already in the populated vector store.
C3_Witness ==
    /\ clsPc = "writing"
    /\ df_old.st = "ok"
    /\ df # <<>>
    /\ df = df_old.rows
    /\ predict_calls = {}
    /\ IdxUpToDate
    /\ parsedStore.rows # <<>>
    /\ embed_calls = <<>>

\* C4: after any number of index runs no two entries of the vector store
\* share a doc_id.
C4_DocIdUnique ==
    \A e1, e2 \in BagToSet(collection) :
        e1.id = e2.id => (e1 = e2 /\ CopiesIn(e1, collection) = 1)

\* Several index runs have added entries: the latest one embedded a part
\* of what the vector store holds.
C4_Witness ==
    /\ exitStatus = "indexed"
    /\ embed_calls # <<>>
    /\ BagCardinality(collection) > Len(embed_calls)

\* The rows a cycle of the live loop appended to its table.
Appended == SubSeq(master_df', Len(master_df) + 1, Len(master_df'))

\* C5: every call of fetch_new_as_dataframe that returns gives exactly the
\* upstream items whose id is not in seen_ids: their count is
\* |upstream| - |upstream /\ seen_ids|, and the result is empty, without
\* error, when nothing upstream is new.
C5_DeltaCorrect ==
    /\ [](loopPc = "sleeping" =>
            \A resp \in OkResponses :
                LET r == fetch_new_as_dataframe(resp, {}, seen_ids)
                    upstream == Range(resp.ids)
                IN  /\ r.raised = "none"
                    /\ Len(r.rows) = Cardinality(upstream)
                                       - Cardinality(upstream \cap seen_ids)
                    /\ Range(IdsOf(r.rows)) = upstream \ seen_ids)
    /\ [][(loopPc = "sleeping" /\ loopPc' = "writing") =>
            \A resp \in OkResponses :
                LoopCycle(resp, {}) =>
                    /\ Len(Appended) = Cardinality(Range(resp.ids))
                                         - Cardinality(Range(resp.ids) \cap seen_ids)
                    /\ Range(IdsOf(Appended)) = Range(resp.ids) \ seen_ids]_vars

\* A cycle has returned new rows, which are being saved behind the rows
\* already held: a classification completed while the loop was asleep, so
\* the raw store, and with it seen_ids, held rows before this cycle.
C5_Witness ==
    /\ loopPc = "writing"
    /\ Len(master_df) >= 2
    /\ seen_ids = Range(IdsOf(master_df))
    /\ exitStatus = "classified"

\* C6: an email whose sender matches a hard-negative domain is rejected by
\* process_and_update_csv whatever its probability and phrases: no row of
\* the master store has such a sender.
C6_HardNegativeRejected ==
    masterStore.st = "ok" =>
        \A i \in DOMAIN masterStore.rows : ~is_negative_sender(masterStore.rows[i].sender)

\* C7: a run aborted before its write completes leaves the prior store:
\* the classified store is what the run loaded, the raw store is what the
\* live loop last saved.
C7_AbortLeavesPriorStore ==
    [][/\ (clsPc = "writing" /\ ClassifyKill) => clsStore' = df_old
       /\ (loopPc = "writing" /\ LoopKill) =>
              \E n \in 0..Len(master_df) :
                  rawStore' \in {Absent, Saved(<<>>, FALSE),
                                 Saved(SubSeq(master_df, 1, n), TRUE)}]_vars

\* A row of the raw store has no label in the prior classified store.
NeedsClassifier ==
    \E i \in DOMAIN rawStore.rows :
        ~\E j \in DOMAIN clsStore.rows :
            clsStore.rows[j].id = rawStore.rows[i].id /\ Labelled(clsStore.rows[j])

\* The fatal errors of classify: raw store missing, model artifact missing,
\* required columns missing, classifier invocation raising.
Fatal(env) ==
    \/ rawStore.st = "absent"
    \/ env = "model_missing"
    \/ rawStore.st = "ok" /\ ~rawStore.cols
    \/ /\ env = "predict_raised"
       /\ rawStore.st = "ok" /\ rawStore.cols
       /\ clsStore.st # "corrupt"
       /\ NeedsClassifier

\* C8: a fatal error ends the classification run before any write to the
\* classified store: the store is unchanged and nothing is being written.
C8_FatalBeforeWrite ==
    [][clsPc = "idle" =>
          \A env \in ModelEnvs :
              (Fatal(env) /\ Classify(env)) =>
                  /\ clsStore' = clsStore
                  /\ clsPc' = "idle"
                  /\ exitStatus' \in FatalExits]_vars

\* The classifier raised in a run over a raw store with a new item; the
\* prior classified store is there with its rows.
C8_Witness ==
    /\ exitStatus = "predict_raised"
    /\ clsPc = "idle"
    /\ clsStore.st = "ok"
    /\ clsStore.rows # <<>>
    /\ NeedsClassifier

\* C9: when the detail fetch of one item fails, that item is skipped and
\* the cycle goes on: the loop keeps running and the other new items are
\* appended.
C9_DetailFailureSkipsItem ==
    [][loopPc = "sleeping" =>
          \A resp \in OkResponses, failing \in Failings :
              (LoopCycle(resp, failing)
                 /\ (Range(resp.ids) \ seen_ids) \cap failing # {}) =>
                  /\ loopPc' # "stopped"
                  /\ (Range(resp.ids) \ seen_ids) \ failing
                        \subseteq Range(IdsOf(master_df'))]_vars

\* messages().list raising.
ListingError == [ok |-> FALSE, ids |-> <<>>]

\* C10: an error of the listing call aborts the whole fetch cycle:
\* seen_ids is unchanged, no detail fetch is made, no row is appended to
\* the raw store.
C10_ListingErrorAborts ==
    /\ [](loopPc = "sleeping" =>
            \A failing \in Failings :
                LET r == fetch_new_as_dataframe(ListingError, failing, seen_ids)
                IN  /\ r.raised = "listing_error"
                    /\ r.seen_ids = seen_ids
                    /\ r.calls = {}
                    /\ r.rows = <<>>)
    /\ [][loopPc = "sleeping" =>
            \A failing \in Failings :
                LoopCycle(ListingError, failing) =>
                    (rawStore' = rawStore /\ loopPc' = "stopped")]_vars

\* The live loop ended on a listing error; the raw store holds the rows it
\* had saved before.
C10_Witness ==
    /\ exitStatus = "listing_error"
    /\ loopPc = "stopped"
    /\ rawStore.st = "ok"
    /\ rawStore.rows # <<>>

\* C11: fetch_new_as_dataframe calls get_details only for ids that are not
\* in seen_ids when the call starts, and on return seen_ids holds its
\* previous members and every id fetched in the call.
C11_DetailOnlyForUnseen ==
    /\ [](loopPc = "sleeping" =>
            \A resp \in ListResponses, failing \in Failings :
                LET r == fetch_new_as_dataframe(resp, failing, seen_ids)
                IN  /\ r.calls \cap seen_ids = {}
                    /\ r.raised = "none" =>
                          r.seen_ids = seen_ids \cup Range(IdsOf(r.rows)))
    /\ [][(loopPc = "sleeping" /\ loopPc' = "writing") =>
            \A resp \in OkResponses :
                LoopCycle(resp, {}) =>
                    seen_ids' = seen_ids \cup Range(IdsOf(Appended))]_vars

\* A cycle has fetched new items into a ledger that already held ids: the
\* classifier had been invoked on rows of the raw store, and raised, while
\* the loop was asleep.
C11_Witness ==
    /\ loopPc = "writing"
    /\ exitStatus = "predict_raised"
    /\ Len(master_df) >= 2
    /\ seen_ids = Range(IdsOf(master_df))

\* C12: an index run hands to the embedder only rows whose doc_id the
\* vector store did not hold when the run started, leaves every entry the
\* store held as it was, and when the store holds every row's doc_id it
\* neither embeds nor inserts.
C12_EmbedOnlyDelta ==
    [][IndexSync =>
          /\ \A k \in DOMAIN embed_calls' :
                 embed_calls'[k] \notin existing_ids(collection)
          /\ \A e \in BagToSet(collection) :
                 CopiesIn(e, collection') = CopiesIn(e, collection)
          /\ IdxUpToDate => (embed_calls' = <<>> /\ collection' = collection)]_vars

\* An index run over a parsed store of which the vector store already held
\* a part has embedded the rest only.
C12_Witness ==
    /\ exitStatus = "indexed"
    /\ embed_calls # <<>>
    /\ Len(embed_calls) < Len(parsedStore.rows)
    /\ IdxUpToDate

\* C13: a classify run that completes saves one row per row of the raw
\* store, in the raw store's order and with its fields, whatever the prior
\* classified store held.
C13_OneRowPerRawRow ==
    [][(clsPc = "writing" /\ ClassifyWriteEnd) =>
          /\ clsStore'.st = "ok"
          /\ Len(clsStore'.rows) = Len(rawStore.rows)
          /\ \A i \in DOMAIN rawStore.rows :
                 /\ clsStore'.rows[i].id = rawStore.rows[i].id
                 /\ clsStore'.rows[i].gmail_link = rawStore.rows[i].gmail_link]_vars

\* A run is saving its table for a raw store of several rows, having loaded
\* a prior store in which an id of the raw store occurs twice.
C13_Witness ==
    /\ clsPc = "writing"
    /\ Len(rawStore.rows) >= 2
    /\ Len(df) = Len(rawStore.rows)
    /\ \E i, j \in DOMAIN df_old.rows :
           /\ i # j
           /\ df_old.rows[i].id = df_old.rows[j].id
           /\ df_old.rows[i].id \in Range(IdsOf(rawStore.rows))

\* C14: whenever retrieval returns no document for a question, ask returns
\* the fixed no-matching-records answer and llm.invoke is not called.
C14_QueryShortCircuit ==
    [][\A output \in LlmOutputs :
          Ask({}, output) => (answer' = NoMatchAnswer /\ ~llm_invoked')]_vars

\* A question asked of an empty vector store got the fixed answer without
\* generation.
C14_Witness ==
    /\ exitStatus = "indexed"
    /\ collection = EmptyBag
    /\ answer = NoMatchAnswer
    /\ ~llm_invoked

\* ids of the rows of the master store, in row order
EmailIdsOf(rows) == [i \in DOMAIN rows |-> rows[i].email_id]

\* An email from a job platform with a job keyword in its subject.
Trusted(email) ==
    /\ JOB_DOMAINS_INFER \cap email.sender # {}
    /\ STRONG_SUBJECT_INFER \cap email.subject # {}

\* C15: an email from a known job-platform sender with a job keyword in
\* its subject is accepted, and is in the master store after the run, also
\* when its probability is below prob_threshold.
C15_TrustedSenderRescue ==
    prob_threshold # 0 =>
        \A email \in Emails, p \in Probas :
            (Trusted(email) /\ p < prob_threshold) =>
                /\ AcceptedRows(<<email>>, <<p>>, prob_threshold) # <<>>
                /\ \A emails \in Batches :
                       (emails # <<>> /\ emails[Len(emails)] = email) =>
                           \E i \in DOMAIN MergeMaster(masterStore,
                                   AcceptedRows(emails, [k \in DOMAIN emails |-> p],
                                                prob_threshold)).rows :
                               LET row == MergeMaster(masterStore,
                                              AcceptedRows(emails, [k \in DOMAIN emails |-> p],
                                                           prob_threshold)).rows[i]
                               IN  row.email_id[2] = email.email_id[2] /\ row.job_prob = p

\* The master store holds the row of a platform email with a subject
\* keyword whose probability is below the threshold.
C15_Witness ==
    /\ masterStore.st = "ok"
    /\ \E i \in DOMAIN masterStore.rows :
           /\ Trusted(masterStore.rows[i])
           /\ masterStore.rows[i].job_prob < prob_threshold

\* An email with no rule signal: no consumer sender, no platform sender, no
\* listed phrase.
NoSignal(email) ==
    /\ ~is_negative_sender(email.sender)
    /\ ~has_strong_job_signal(email.subject, email.body, email.sender)

\* C16: an email with no rule signal is accepted exactly when its
\* probability is at or above the prob_threshold the agent was built with.
C16_ThresholdDecides ==
    prob_threshold # 0 =>
        \A email \in Emails, p \in Probas :
            NoSignal(email) =>
                (AcceptedRows(<<email>>, <<p>>, prob_threshold) # <<>>
                    <=> p >= prob_threshold)

\* An agent built with a threshold other than the default holds in its
\* master store an email without rule signal that an agent with the
\* default threshold accepted at exactly that threshold.
C16_Witness ==
    /\ prob_threshold > DefaultThreshold
    /\ masterStore.st = "ok"
    /\ \E i \in DOMAIN masterStore.rows :
           /\ NoSignal(masterStore.rows[i])
           /\ masterStore.rows[i].job_prob = DefaultThreshold

\* Phrases of a job opening or posting.
OpeningPhrases == {"job opening"}

\* The status the precedence order gives: application confirmation, then
\* interview, then rejection, then opening, else other.
StatusByOrder(text) ==
    IF APPLICATION_CONFIRM_WORDS \cap text # {} THEN {"APPLICATION_CONFIRMATION"}
    ELSE IF INTERVIEW_WORDS \cap text # {} THEN {"INTERVIEW_INVITE"}
    ELSE IF REJECTION_WORDS \cap text # {} THEN {"REJECTION"}
    ELSE IF OpeningPhrases \cap text # {} THEN {"JOB_OPENING"}
    ELSE {"OTHER", "OTHER_JOB_EMAIL"}

\* C17: the status of a text is that of the first class it matches in the
\* order application confirmation, interview, rejection, opening/posting;
\* a text with opening phrases only gets JOB_OPENING, a text matching no
\* class gets OTHER.
C17_StatusFirstMatch ==
    job_status # "" => job_status \in StatusByOrder(status_text)

\* C18: the listing of a fetch cycle is the complete set of the messages
\* that match the query, also when they fill more than one page: after
\* the cycle every matching id is in seen_ids.
C18_ListingComplete ==
    [][(loopPc = "sleeping" /\ loopPc' = "writing") =>
          \A matching \in Mailboxes :
              LoopCycle(messages_list(matching), {}) =>
                  /\ Range(list_ids(messages_list(matching))) = Range(matching)
                  /\ Range(matching) \subseteq seen_ids']_vars

\* No two rows of a master table hold the same id.
OneRowPerEmail(rows) ==
    \A i, j \in DOMAIN rows : rows[i].email_id[2] = rows[j].email_id[2] => i = j

\* C19: ids are compared as normalised strings, so an id read back from a
\* store as a number and met again as a string is one item: a run that
\* processes an email whose id a duplicate-free master store already holds
\* leaves the master store duplicate-free.
C19_IdsComparedAsStrings ==
    (prob_threshold # 0 /\ masterStore.st = "ok" /\ OneRowPerEmail(masterStore.rows)) =>
        \A email \in Emails, p \in Probas :
            OneRowPerEmail(MergeMaster(masterStore,
                                       AcceptedRows(<<email>>, <<p>>, prob_threshold)).rows)

\* C20: the doc_id of a parsed row is its mail_link when that is not empty,
\* and otherwise the synthetic key row_<position>; a synthetic key is equal
\* to no mail_link of the table and to no other row's doc_id.
C20_DocIdDerivation ==
    parsedStore.st = "ok" =>
        LET rows == parsedStore.rows
            docs == WithDocId(rows)
        IN  \A i \in DOMAIN rows :
                /\ rows[i].mail_link # <<>> => docs[i].doc_id = rows[i].mail_link
                /\ rows[i].mail_link = <<>> =>
                       /\ docs[i].doc_id = <<"row_", i - 1>>
                       /\ \A j \in DOMAIN rows :
                              /\ docs[i].doc_id # rows[j].mail_link
                              /\ j # i => docs[j].doc_id # docs[i].doc_id

\* An indexed table of two rows without a link and the two synthetic keys in
\* the collection.
C20_Witness ==
    /\ exitStatus = "indexed"
    /\ parsedStore.st = "ok"
    /\ Len(parsedStore.rows) = 2
    /\ \A i \in DOMAIN parsedStore.rows : parsedStore.rows[i].mail_link = <<>>
    /\ {<<"row_", 0>>, <<"row_", 1>>} \subseteq existing_ids(collection)

\* C21: the raw store is append-only across the cycles of the live loop:
\* between cycles the file holds the loop's table; a cycle with new rows
\* saves the rows the file held, unchanged and in their order, followed by
\* the new rows; a cycle without new rows leaves the file as it is.
C21_RawStoreAppendOnly ==
    /\ [](loopPc = "sleeping" =>
            (rawStore.st \in {"absent", "ok"} /\ rawStore.rows = master_df))
    /\ [][/\ (loopPc = "sleeping" /\ loopPc' = "writing") =>
                 /\ Len(master_df') > Len(rawStore.rows)
                 /\ SubSeq(master_df', 1, Len(rawStore.rows)) = rawStore.rows
                 /\ Range(IdsOf(Appended)) \cap seen_ids = {}
          /\ (loopPc = "writing" /\ LoopWriteEnd) => rawStore' = Saved(master_df, TRUE)
          /\ (loopPc = "sleeping" /\ loopPc' = "sleeping") => rawStore' = rawStore]_vars

\* The raw store holds two rows between cycles while the classified store,
\* written between two cycles, holds the first of them alone: the second
\* row was appended by a later cycle.
C21_Witness ==
    /\ loopPc = "sleeping"
    /\ rawStore.st = "ok"
    /\ Len(rawStore.rows) = 2
    /\ clsStore.st = "ok"
    /\ Len(clsStore.rows) = 1
    /\ clsStore.rows[1].id = rawStore.rows[1].id
    /\ exitStatus = "classified"

\* The status values of the two agents.
JobStatuses ==
    {"APPLICATION_CONFIRMATION", "INTERVIEW_INVITE", "REJECTION", "JOB_OPENING",
     "OTHER_JOB_EMAIL"}

\* The statuses that mean an application was made.
AppliedStatuses == {"APPLICATION_CONFIRMATION", "INTERVIEW_INVITE", "REJECTION"}

\* C22: applied_flag_from_status gives 1 exactly for the statuses
\* APPLICATION_CONFIRMATION, INTERVIEW_INVITE and REJECTION, for every status
\* and for the status of every combined text, and every row of the master
\* store has applied equal to that function of its job_status.
C22_AppliedFlag ==
    /\ \A status \in JobStatuses :
           applied_flag_from_status(status) = 1 <=> status \in AppliedStatuses
    /\ \A text \in StatusTexts :
           /\ applied_flag_from_status(infer_job_status(text)) \in {0, 1}
           /\ applied_flag_from_status(infer_job_status(text)) = 1
                  <=> infer_job_status(text) \in AppliedStatuses
    /\ masterStore.st = "ok" =>
           \A i \in DOMAIN masterStore.rows :
               LET row == masterStore.rows[i]
               IN  /\ row.job_status = infer_job_status(Combined(row.subject, row.body))
                   /\ row.applied \in {0, 1}
                   /\ row.applied = 1 <=> row.job_status \in AppliedStatuses

\* The master store holds a rejection with the flag set and another email
\* with the flag clear.
C22_Witness ==
    /\ masterStore.st = "ok"
    /\ \E i, j \in DOMAIN masterStore.rows :
           /\ masterStore.rows[i].job_status = "REJECTION"
           /\ masterStore.rows[i].applied = 1
           /\ masterStore.rows[j].job_status = "OTHER_JOB_EMAIL"
           /\ masterStore.rows[j].applied = 0

\* No id is in two rows of the raw store.
RawIdsDistinct ==
    \A i, j \in DOMAIN rawStore.rows : rawStore.rows[i].id = rawStore.rows[j].id => i = j

\* C23: the live loop and fetch_new_emails_once are not serialised; when
\* their cycles interleave, each completed write replaces the file by the
\* writer's own table, built on its own earlier load, and leaves the other
\* run's copy as it was.  A row saved by one run can so be lost; no
\* interleaving puts an id in two rows of the raw store.
C23_RaceLosesRows ==
    /\ [](RawIdsDistinct)
    /\ [][/\ (oncePc = "writing" /\ OnceWriteEnd) =>
                 /\ rawStore' = Saved(concat(SubSeq(once_df, 1, Len(once_df) - Len(once_new)),
                                             once_new), TRUE)
                 /\ Range(IdsOf(once_new)) \cap
                        Range(IdsOf(SubSeq(once_df, 1, Len(once_df) - Len(once_new)))) = {}
                 /\ <<master_df, seen_ids>>' = <<master_df, seen_ids>>
          /\ (loopPc = "writing" /\ LoopWriteEnd) =>
                 /\ rawStore' = Saved(master_df, TRUE)
                 /\ <<once_df, once_seen>>' = <<once_df, once_seen>>]_vars

\* Both writers are at rest and the file lacks a row the loop has saved:
\* its id is in the loop's seen_ids, so the loop will not fetch it again.
C23_Witness ==
    /\ loopPc = "sleeping"
    /\ oncePc = "idle"
    /\ rawStore.st = "ok"
    /\ \E id \in seen_ids : id \notin Range(IdsOf(rawStore.rows))

\* C23 as stated, for its second outcome: when fetch_new_emails_once saves a
\* table to which it has appended an id that the live loop has appended to
\* its own table too, the raw store ends with that id in two rows.
C23_SameIdTwice ==
    [][(/\ oncePc = "writing"
        /\ OnceWriteEnd
        /\ loopPc = "sleeping"
        /\ Range(IdsOf(once_new)) \cap Range(IdsOf(master_df)) # {}) =>
            ~RawIdsDistinct']_vars

\* The job_label the join gives a raw row: that of the first row of the
\* prior classified store with the row's id, null when there is none.
LabelAfterJoin(id) ==
    LET js == {j \in DOMAIN clsStore.rows : clsStore.rows[j].id = id}
    IN  IF clsStore.st # "ok" \/ js = {} THEN NA
        ELSE clsStore.rows[CHOOSE j \in js : \A k \in js : j <= k].job_label

\* The positions of the raw rows left with a null job_label by the join.
NullAfterJoin ==
    {i \in DOMAIN rawStore.rows : LabelAfterJoin(rawStore.rows[i].id) = NA}

\* C24: a classify run invokes the model only when the join leaves a row
\* with a null job_label, and then on exactly those rows, in row order; the
\* k-th returned label and probability go to the k-th of those rows and
\* every other row keeps what the join gave it; when no row has a null
\* label the run completes without loading or invoking the model.
C24_ClassifierOnNullRowsOnly ==
    /\ [](clsPc = "idle" /\ rawStore.st = "ok" =>
            LET merged == MergeOld(rawStore.rows, clsStore)
                n == Cardinality(NullAfterJoin)
            IN  /\ mask_new(merged) = NullAfterJoin
                /\ \A preds \in [1..n -> Preds] :
                       LET out == AssignPreds(merged, NullAfterJoin, preds)
                       IN  \A i \in DOMAIN merged :
                               IF i \in NullAfterJoin
                               THEN LET k == Cardinality({j \in NullAfterJoin : j < i}) + 1
                                    IN  /\ out[i].job_label = preds[k].job_label
                                        /\ out[i].prob_job = preds[k].prob_job
                                        /\ out[i].id = merged[i].id
                               ELSE out[i] = merged[i])
    /\ [][(clsPc = "idle" /\ clsPc' = "writing") =>
              /\ predict_calls' = NullAfterJoin
              /\ \A i \in DOMAIN df' :
                     i \notin NullAfterJoin =>
                         df'[i].job_label = LabelAfterJoin(rawStore.rows[i].id)]_vars
    /\ [][(clsPc = "idle" /\ rawStore.st = "ok" /\ rawStore.cols /\ NullAfterJoin = {}) =>
              \A env \in {"model_unreadable", "predict_raised"} :
                  Classify(env) => (clsPc' = "writing" /\ predict_calls' = {})]_vars

\* Two rows were handed to the model and the first got the other label than
\* the second.
C24_Witness ==
    /\ clsPc = "writing"
    /\ predict_calls = {1, 2}
    /\ df[1].job_label = 1
    /\ df[2].job_label = 0

\* C25: a prior classified store that lacks the id, job_label or prob_job
\* column is no structural error for classify: the run goes on to its
\* write, the field of the absent column is null for every row (without id
\* or job_label no old label is reused, without prob_job the reused rows
\* have a null prob_job), and every row left without a label is classified.
C25_SchemaDriftTolerated ==
    [][(/\ clsPc = "idle"
        /\ rawStore.st = "ok" /\ rawStore.cols
        /\ clsStore.st = "ok"
        /\ cls_columns # LabelColumns
        /\ Classify("ok")) =>
            /\ clsPc' = "writing"
            /\ exitStatus' = "none"
            /\ Len(df') = Len(rawStore.rows)
            /\ \A i \in DOMAIN df' :
                   /\ df'[i].job_label # NA
                   /\ i \in predict_calls' <=> LabelAfterJoin(rawStore.rows[i].id) = NA
                   /\ ("id" \notin cls_columns \/ "job_label" \notin cls_columns)
                          => i \in predict_calls'
                   /\ ("prob_job" \notin cls_columns /\ i \notin predict_calls')
                          => df'[i].prob_job = NA]_vars

\* A run over a prior store without the prob_job column is at its write: a
\* row keeps its old label with a null probability, another was classified.
C25_Witness ==
    /\ clsPc = "writing"
    /\ cls_columns = {"id", "job_label"}
    /\ predict_calls # {}
    /\ \E i \in DOMAIN df :
           i \notin predict_calls /\ df[i].job_label # NA /\ df[i].prob_job = NA

\* The ids of the rows of a master table, as the digits the file holds.
MasterIds(rows) == {rows[i].email_id[2] : i \in DOMAIN rows}

\* C26: the merge into the master CSV loses and duplicates nothing: the
\* master store has at most one row per email_id, and a run over a master
\* store leaves in it every id it held or the run accepted, the rows of the
\* ids the run did not accept as they were, and for an accepted id the row
\* of this run alone.
C26_MasterMergeExact ==
    (prob_threshold # 0 /\ masterStore.st = "ok") =>
        /\ OneRowPerEmail(masterStore.rows)
        /\ \A email \in Emails, p \in Probas :
               LET accepted == AcceptedRows(<<email>>, <<p>>, prob_threshold)
                   after == MergeMaster(masterStore, accepted).rows
               IN  /\ MasterIds(after) = MasterIds(masterStore.rows) \cup MasterIds(accepted)
                   /\ \A i \in DOMAIN masterStore.rows :
                          masterStore.rows[i].email_id[2] \notin MasterIds(accepted) =>
                              \E k \in DOMAIN after : after[k] = masterStore.rows[i]
                   /\ \A k \in DOMAIN after :
                          after[k].email_id[2] \in MasterIds(accepted) =>
                              after[k] = to_csv(accepted)[1]

\* The master CSV exists and cannot be read as a table: it has zero bytes,
\* or it has no header line and pd.read_csv raises EmptyDataError.
MasterUnreadable == masterStore.st = "corrupt" \/ (masterStore.st = "ok" /\ ~masterStore.cols)

\* C27: process_and_update_csv treats a master CSV that exists but has zero
\* bytes or makes read_csv raise EmptyDataError as absent: no exception
\* leaves it and the master is recreated from the rows accepted in the run,
\* be there none; when no email is accepted and the master is readable, the
\* file stays as it is.
C27_EmptyMasterIsAbsent ==
    /\ exitStatus # "agent_raised"
    /\ prob_threshold # 0 =>
           \A email \in Emails, p \in Probas :
               LET accepted == AcceptedRows(<<email>>, <<p>>, prob_threshold)
               IN  /\ ~MasterRaises(masterStore)
                   /\ MasterUnreadable =>
                          /\ MergeMaster(masterStore, accepted) = MergeMaster(Absent, accepted)
                          /\ MergeMaster(masterStore, accepted).st = "ok"
                          /\ MasterIds(MergeMaster(masterStore, accepted).rows)
                                 = MasterIds(accepted)
                   /\ (~MasterUnreadable /\ masterStore.st = "ok" /\ accepted = <<>>) =>
                          MergeMaster(masterStore, accepted) = masterStore

\* The last run that ended badly was killed in its write and left the
\* master CSV with zero bytes; a run after it has recreated the master from
\* the row it accepted.
C27_Witness ==
    /\ exitStatus = "agent_killed"
    /\ masterStore.st = "ok"
    /\ masterStore.cols
    /\ Len(masterStore.rows) = 1

\* The rows a call of fetch_new_as_dataframe hands to its caller: the
\* returned DataFrame, nothing when the call raises.
Delivered(r) == IF r.raised = "none" THEN r.rows ELSE <<>>

\* At the end of every cycle of the live loop seen_ids is the set of ids of
\* the rows of the persisted raw store.
LedgerAtRest ==
    [](loopPc = "sleeping" => seen_ids = Range(IdsOf(rawStore.rows)))

\* Every id a call of fetch_new_as_dataframe added to seen_ids belongs to a
\* row the call delivered, whether the call returned or raised.
LedgerPerCall ==
    [][loopPc = "sleeping" =>
          \A resp \in ListResponses, failing \in Failings :
              LoopCycle(resp, failing) =>
                  LET r == fetch_new_as_dataframe(resp, failing, seen_ids)
                  IN  (r.seen_ids \ seen_ids)
                          \subseteq Range(IdsOf(Delivered(r)))]_vars

\* C28: ledger consistency: whenever fetch_new_as_dataframe returns or
\* raises, every id it has added to seen_ids has had its row delivered to
\* the caller, and at the end of every cycle of the live loop seen_ids is
\* the set of ids of the rows of the persisted raw store.
C28_LedgerConsistency == LedgerPerCall /\ LedgerAtRest

\* messages().list pages as the API client hands them over, with nothing
\* assumed about their content: an id may be listed more than once.
AnyListings == UNION {[1..n -> Ids] : n \in 0..MaxId}

AnyResponses == [ok : {TRUE}, ids : AnyListings]

\* Fetch cycles one after the other: the live loop and fetch_new_emails_once
\* never run at the same time, no write is interrupted.
SequentialNext ==
    \/ oncePc = "idle" /\ LoopStart
    \/ oncePc = "idle" /\ \E resp \in AnyResponses, failing \in Failings :
                              LoopCycle(resp, failing)
    \/ oncePc = "idle" /\ LoopWriteEnd
    \/ loopPc = "sleeping" /\ LoopKill
    \/ loopPc = "stopped" /\ OnceLoad
    \/ loopPc = "stopped" /\ \E resp \in AnyResponses, failing \in Failings :
                                 OnceFetch(resp, failing)
    \/ loopPc = "stopped" /\ OnceWriteEnd

SpecSequential == Init /\ [][SequentialNext]_vars

\* C29: after any number of sequential fetch cycles starting from an empty
\* raw store, no id appears in more than one row of the persisted raw
\* store, whatever ids the listings return, ids repeated within one
\* listing or across listings included.
C29_NoIdTwiceInRawStore ==
    rawStore.st = "ok" =>
        \A i, j \in DOMAIN rawStore.rows :
            i # j => rawStore.rows[i].id # rawStore.rows[j].id

\* A later run of the parser has two neighbouring rows in the other order.
ParsedReorder(k) ==
    /\ parsedStore.st = "ok"
    /\ k \in DOMAIN parsedStore.rows
    /\ k + 1 \in DOMAIN parsedStore.rows
    /\ parsedStore' = Saved([i \in DOMAIN parsedStore.rows |->
                                IF i = k THEN parsedStore.rows[k + 1]
                                ELSE IF i = k + 1 THEN parsedStore.rows[k]
                                ELSE parsedStore.rows[i]],
                            TRUE)
    /\ exitStatus' = "none"
    /\ UNCHANGED <<collection, embed_calls>>
    /\ UNCHANGED <<fetchVars, clsVars, agentVars, qaVars, statusVars, onceVars, schemaVars>>

\* Parsed rows of distinct mails: the text tells the mail, and a row that
\* has a link has the link of its mail.
MailRows ==
    {r \in ParsedRow : r.mail_link # <<>> => r.mail_link = MailLink(r.mailcontent)}

\* The index stage over parsed stores that hold one row per mail and whose
\* rows are added and reordered between runs, none ever removed.
ReindexNext ==
    \/ \E row \in MailRows :
           /\ \A i \in DOMAIN parsedStore.rows :
                  parsedStore.rows[i].mailcontent # row.mailcontent
           /\ ParsedAppend(row)
    \/ \E k \in 1..MaxRows : ParsedReorder(k)
    \/ IndexSync

SpecReindex == Init /\ [][ReindexNext]_vars

\* C30: index completeness and key stability: after every index run each
\* row of the parsed store has an entry in the vector store under its
\* doc_id whose document is that row's mailcontent, and no row has been
\* embedded more than once over all runs, so that no two entries hold the
\* text of one row; rows without a mail_link, keyed row_<position>,
\* included, also when rows are added or reordered between runs.
C30_IndexCompleteKeysStable ==
    (exitStatus = "indexed" /\ parsedStore.st = "ok") =>
        LET docs == WithDocId(parsedStore.rows)
        IN  \A i \in DOMAIN docs :
                /\ \E e \in BagToSet(collection) :
                       e.id = docs[i].doc_id /\ e.document = docs[i].mailcontent
                /\ \A e1, e2 \in BagToSet(collection) :
                       (e1.document = docs[i].mailcontent
                          /\ e2.document = docs[i].mailcontent) => e1 = e2
====
